---- MODULE Spec2Model ----
(***************************************************************************)
(* A model of lrsManagementRest.js: the REST client of the local           *)
(* management API.  The Client object (loggedIn, sid, connectionOptions),  *)
(* its operations logIn / logOut / getJSON / putJSON / postJSON /          *)
(* deleteJSON, the callbacks the HTTP transport and process.nextTick run   *)
(* later, and the pure helpers (parseOptions, testRequiredOptions,         *)
(* mergeOptions, toJsonString and the four request builders).              *)
(*                                                                         *)
(* JavaScript values are tagged records; JavaScript strings that the code  *)
(* concatenates, searches, splits or measures are sequences of one-        *)
(* character strings, so that these operations are computed.               *)
(***************************************************************************)
EXTENDS Integers, Sequences, FiniteSets, TLC

VARIABLES
    loggedIn,           \* this.loggedIn
    sid,                \* this.sid
    connectionOptions,  \* this.connectionOptions
    inflight,           \* requests handed to the HTTP transport, not yet settled
    tickQueue,          \* number of process.nextTick callbacks of logIn pending
    calls,              \* number of client operations called so far
    lastCall,           \* the operation or callback that ran in the last step
    emitted,            \* the events the client emitted in the last step
    issued,             \* the requests built and sent in the last step
    thrown,             \* the exception the last step ended with
    recording,          \* history: which part of the history below is kept
    sidTarget,          \* history: the target of the login whose response set sid
    latestOutcome,      \* history: outcome of the most recently issued logIn/logOut
    latestPos,          \* history: where that logIn/logOut waits (index, -1 tick, 0 none)
    logoutsDone,        \* history: number of logOut calls that got their response
    targets,            \* history: the connection target of each request in flight
    pArgs, pRequired, pOptional, pResult   \* parseOptions applied on its own

clientVars == <<loggedIn, sid, connectionOptions, inflight, tickQueue, calls,
                lastCall, emitted, issued, thrown>>
historyVars == <<recording, sidTarget, latestOutcome, latestPos, logoutsDone, targets>>
parseVars == <<pArgs, pRequired, pOptional, pResult>>
vars == <<clientVars, historyVars, parseVars>>

-----------------------------------------------------------------------------
(* Bounds of the model *)

\* requests in flight at once
MaxInFlight == 2
\* client operations called in one behaviour
MaxCalls == 3
\* error listeners a caller puts on one returned request
MaxUserListeners == 1

-----------------------------------------------------------------------------
(* JavaScript values *)

Undef == [t |-> "undefined"]
Str(s) == [t |-> "string", s |-> s]
Num(n) == [t |-> "number", n |-> n]
Bool(b) == [t |-> "boolean", b |-> b]
Obj(o) == [t |-> "object", o |-> o]
Fn(f) == [t |-> "function", f |-> f]

\* the empty object literal {}
EmptyObj == <<>>

\* ToBoolean: what `if (v)`, `!v` and `v || d` test
Truthy(v) ==
    CASE v.t = "undefined" -> FALSE
      [] v.t = "string" -> Len(v.s) > 0
      [] v.t = "number" -> v.n # 0
      [] v.t = "boolean" -> v.b
      [] OTHER -> TRUE

\* a || b
Or(a, b) == IF Truthy(a) THEN a ELSE b

\* o[k] of an object's property map
Get(o, k) == IF k \in DOMAIN o THEN o[k] ELSE Undef

\* v[k] of any value that is not undefined
Prop(v, k) == IF v.t = "object" THEN Get(v.o, k) ELSE Undef

Digit(d) ==
    CASE d = 0 -> "0" [] d = 1 -> "1" [] d = 2 -> "2" [] d = 3 -> "3"
      [] d = 4 -> "4" [] d = 5 -> "5" [] d = 6 -> "6" [] d = 7 -> "7"
      [] d = 8 -> "8" [] d = 9 -> "9"

RECURSIVE NumToStr(_)
NumToStr(n) == IF n < 10 THEN <<Digit(n)>> ELSE NumToStr(n \div 10) \o <<Digit(n % 10)>>

\* ToString: what `"text" + v` appends
ToStr(v) ==
    CASE v.t = "string" -> v.s
      [] v.t = "number" -> NumToStr(v.n)
      [] v.t = "boolean" -> IF v.b THEN <<"t","r","u","e">> ELSE <<"f","a","l","s","e">>
      [] v.t = "undefined" -> <<"u","n","d","e","f","i","n","e","d">>
      [] v.t = "object" -> <<"[","o","b","j","e","c","t"," ","O","b","j","e","c","t","]">>
      [] OTHER -> <<"f","u","n","c","t","i","o","n">>

\* a + b where a is a string
Concat(a, b) == Str(a.s \o ToStr(b))

\* s.indexOf(pat), 0-based, -1 when absent
IndexOf(s, pat) ==
    LET hits == {i \in 1..(Len(s) - Len(pat) + 1) : SubSeq(s, i, i + Len(pat) - 1) = pat}
    IN IF hits = {} THEN -1
       ELSE (CHOOSE i \in hits : \A j \in hits : i <= j) - 1

\* s.split(sep)[0]
SplitFirst(s, sep) ==
    LET i == IndexOf(s, sep)
    IN IF i = -1 THEN s ELSE SubSeq(s, 1, i)

-----------------------------------------------------------------------------
(* Results of a call: a value, or an exception *)

NoError == [type |-> "none", msg |-> "", arg |-> <<>>]
Return(v) == [ok |-> TRUE, value |-> v, error |-> NoError]
Throw(e) == [ok |-> FALSE, value |-> Undef, error |-> e]

TypeError == [type |-> "TypeError", msg |-> "", arg |-> <<>>]
moreArgsError(requiredArgs) ==
    [type |-> "Error", msg |-> "More arguments required", arg |-> requiredArgs]
missingArgError(name) ==
    [type |-> "Error", msg |-> "Missing required argument", arg |-> <<name>>]

-----------------------------------------------------------------------------
(* Utility functions *)

\* isString(obj)
isString(obj) == obj.t = "string"

\* The least element of a non-empty set of numbers
Least(S) == CHOOSE i \in S : \A j \in S : i <= j

\* testRequiredOptions(options, requiredOptions): the exception it throws, or NoError.
\* options[opt] of undefined is a TypeError; a field is taken as missing when its
\* value is falsy.
testRequiredOptions(options, requiredOptions) ==
    IF Len(requiredOptions) = 0 THEN NoError
    ELSE IF options.t = "undefined" THEN TypeError
    ELSE LET falsy == {i \in 1..Len(requiredOptions) :
                          ~Truthy(Prop(options, requiredOptions[i]))}
         IN IF falsy = {} THEN NoError
            ELSE missingArgError(requiredOptions[Least(falsy)])

Min(a, b) == IF a < b THEN a ELSE b

\* The keys a for-in loop over v visits
ForInKeys(v) == IF v.t = "object" THEN DOMAIN v.o ELSE {}

\* The index of the last position of seq (among the first n) that holds key, 0 if none
LastIndexOf(seq, n, key) ==
    LET at == {i \in 1..n : seq[i] = key}
    IN IF at = {} THEN 0 ELSE CHOOSE i \in at : \A j \in at : j <= i

\* parseOptions(args, requiredArgs, optionalArgs)
parseOptions(args, requiredArgs, optionalArgs) ==
    IF Len(args) = 0
    THEN IF Len(requiredArgs) = 0 THEN Return(Obj(EmptyObj))
         ELSE Throw(moreArgsError(requiredArgs))
    ELSE IF isString(args[1])
    THEN \* the 'simple' case
         IF Len(args) < Len(requiredArgs) THEN Throw(moreArgsError(requiredArgs))
         ELSE LET nReq == Len(requiredArgs)
                  availOptionalArgs == Min(Len(args) - nReq, Len(optionalArgs))
                  keys == {requiredArgs[i] : i \in 1..nReq}
                              \cup {optionalArgs[i] : i \in 1..availOptionalArgs}
                  toReturn == [k \in keys |->
                      LET o == LastIndexOf(optionalArgs, availOptionalArgs, k)
                      IN IF o # 0 THEN args[nReq + o]
                         ELSE args[LastIndexOf(requiredArgs, nReq, k)]]
              IN Return(Obj(toReturn))
    ELSE \* the object specifier case
         LET err == testRequiredOptions(args[1], requiredArgs)
             availOptionalArgs == Min(Len(args) - 1, Len(optionalArgs))
             keys == ForInKeys(args[1]) \cup {optionalArgs[i] : i \in 1..availOptionalArgs}
             toReturn == [k \in keys |->
                 LET o == LastIndexOf(optionalArgs, availOptionalArgs, k)
                 IN IF o # 0 THEN args[1 + o] ELSE args[1].o[k]]
         IN IF err # NoError THEN Throw(err) ELSE Return(Obj(toReturn))

\* JSON.stringify(v) for numbers, booleans, strings and objects of these.  A
\* property whose value is undefined or a function is left out, and undefined or
\* a function at the top gives undefined.  Property names are one character long.
RECURSIVE JSONStringify(_)
RECURSIVE StringifyProps(_, _)
StringifyProps(o, keys) ==
    IF keys = {} THEN <<>>
    ELSE LET k == CHOOSE x \in keys : TRUE
             rest == StringifyProps(o, keys \ {k})
             one == <<"\"", k, "\"", ":">> \o JSONStringify(o[k]).s
         IN IF rest = <<>> THEN one ELSE one \o <<",">> \o rest
JSONStringify(v) ==
    CASE v.t = "number" -> Str(NumToStr(v.n))
      [] v.t = "boolean" -> Str(ToStr(v))
      [] v.t = "string" -> Str(<<"\"">> \o v.s \o <<"\"">>)
      [] v.t = "object" ->
            Str(<<"{">> \o StringifyProps(v.o,
                     {k \in DOMAIN v.o : v.o[k].t \notin {"undefined", "function"}})
                \o <<"}">>)
      [] OTHER -> Undef

\* toJsonString(arg)
toJsonString(arg) == IF isString(arg) THEN arg ELSE JSONStringify(arg)

\* mergeOptions(obj1, obj2): Object.getOwnPropertyNames of undefined is a TypeError
mergeOptions(obj1, obj2) ==
    IF obj1.t # "object" \/ obj2.t # "object" THEN Throw(TypeError)
    ELSE Return(Obj(obj2.o @@ obj1.o))

-----------------------------------------------------------------------------
(* Base REST functions: the request builders *)

AcceptAll == Str(<<"*", "/", "*">>)

\* The body the four builders share.  options is the caller's localOptions;
\* the request holds the options given to http.request, the headers of the
\* request after removeHeader("Host") / setHeader("Host", ...), and the callback.
buildRequest(method, base, required, options, connOpts) ==
    LET err == testRequiredOptions(Obj(options), required)
        requestOptions == mergeOptions(Obj(base), connOpts)
        headers == IF Truthy(Get(options, "cookie"))
                   THEN ("Cookie" :> Get(options, "cookie")) @@ base["headers"].o
                   ELSE base["headers"].o
        hostHeader == Concat(Concat(Str(ToStr(Get(options, "host"))), Str(<<":">>)),
                             Get(options, "port"))
    IN IF err # NoError THEN Throw(err)
       ELSE IF ~requestOptions.ok THEN requestOptions
       ELSE Return([options |-> ("headers" :> Obj(headers)) @@ requestOptions.value.o,
                    headers |-> ("Host" :> hostHeader) @@ headers,
                    method |-> method,
                    callback |-> Get(options, "callback"),
                    body |-> <<>>])

ContentHeaders(options) ==
    ("Accept" :> AcceptAll)
    @@ ("Content-Length" :> Get(options, "contentLength"))
    @@ ("Content-Type" :> Get(options, "contentType"))

\* getPostReq(options, connectionOptions)
getPostReq(options, connOpts) ==
    buildRequest("POST",
                 [path |-> Get(options, "path"), method |-> Str(<<"P","O","S","T">>),
                  agent |-> Bool(FALSE), headers |-> Obj(ContentHeaders(options))],
                 <<"path", "contentLength", "contentType">>, options, connOpts)

\* A slip in the builder: the cookie is not sent
getGetReq_NoCookie(options, connOpts) ==
    buildRequest("GET",
                 [path |-> Get(options, "path"), method |-> Str(<<"G","E","T">>),
                  agent |-> Bool(FALSE), headers |-> Obj("Accept" :> AcceptAll)],
                 <<"path">>, [k \in DOMAIN options \ {"cookie"} |-> options[k]], connOpts)

\* getGetReq(options, connectionOptions)
getGetReq(options, connOpts) ==
    buildRequest("GET",
                 [path |-> Get(options, "path"), method |-> Str(<<"G","E","T">>),
                  agent |-> Bool(FALSE), headers |-> Obj("Accept" :> AcceptAll)],
                 <<"path">>, options, connOpts)

\* getDeleteReq(options, connectionOptions)
getDeleteReq(options, connOpts) ==
    buildRequest("DELETE",
                 [path |-> Get(options, "path"),
                  method |-> Str(<<"D","E","L","E","T","E">>),
                  headers |-> Obj("Accept" :> AcceptAll)],
                 <<"path">>, options, connOpts)

\* getPutReq(options, connectionOptions)
getPutReq(options, connOpts) ==
    buildRequest("PUT",
                 [path |-> Get(options, "path"), method |-> Str(<<"P","U","T">>),
                  headers |-> Obj(ContentHeaders(options))],
                 <<"path", "contentLength", "contentType">>, options, connOpts)

-----------------------------------------------------------------------------
(* The Client object *)

unixSockName ==
    <<"/","t","m","p","/","r","e","s","t","_","s","e","r","v","e","r",
      "/","h","t","t","p",".","s","o","c","k">>
apiPrefix == <<"/","l","r","s","/","a","p","i","/","v","1",".","0">>
DefaultPort == 3001
DefaultHost == <<"1","2","7",".","0",".","0",".","1">>
DefaultUsername == <<"t","e","s","t","l","a","b">>
DefaultPassword == <<"c","h","a","n","g","e","m","e">>
LoginPath == <<"/","l","o","g","i","n">>
LogoutPath == <<"/","l","o","g","o","u","t">>
FormContentType == Str(<<"application/x-www-form-urlencoded">>)
JsonContentType == Str(<<"application/json">>)
printResponse == Fn("printResponse")

\* An event the client emits, with its arguments
Event(name, args) == [name |-> name, args |-> args]

\* What a piece of client code did: the client's fields after it, the events it
\* emitted, the requests it sent, the nextTick callbacks it queued, what it threw
Effect(self, events, requests, ticks, error) ==
    [self |-> self, events |-> events, requests |-> requests, ticks |-> ticks,
     error |-> error]

\* The client's fields
Self == [loggedIn |-> loggedIn, sid |-> sid, connectionOptions |-> connectionOptions]

\* A slip in the test: a password without a username goes through
loginOptionsError_UsernameOnly(safeOpts) ==
    IF Truthy(Get(safeOpts, "username")) /\ ~Truthy(Get(safeOpts, "password"))
    THEN Obj([message |->
                 Str(<<"Client login options contained the username  but no password.">>)])
    ELSE Undef

\* logIn: the username xor password test; the error object emitted, or undefined
loginOptionsError(safeOpts) ==
    IF Truthy(Get(safeOpts, "username")) /\ ~Truthy(Get(safeOpts, "password"))
    THEN Obj([message |->
                 Str(<<"Client login options contained the username  but no password.">>)])
    ELSE IF ~Truthy(Get(safeOpts, "username")) /\ Truthy(Get(safeOpts, "password"))
    THEN Obj([message |->
                 Str(<<"Client login options contained the password  but no username.">>)])
    ELSE Undef

\* A slip in the target: the socket path is saved beside host and port
loginConnectionOptions_Both(safeOpts) ==
    IF Truthy(Get(safeOpts, "host")) \/ Truthy(Get(safeOpts, "port"))
    THEN Obj([host |-> Or(Get(safeOpts, "host"), Str(DefaultHost)),
              port |-> Or(Get(safeOpts, "port"), Num(DefaultPort)),
              socketPath |-> Str(unixSockName)])
    ELSE Obj([socketPath |-> Str(unixSockName)])

\* logIn: the connection target saved in self.connectionOptions
loginConnectionOptions(safeOpts) ==
    IF Truthy(Get(safeOpts, "host")) \/ Truthy(Get(safeOpts, "port"))
    THEN Obj([host |-> Or(Get(safeOpts, "host"), Str(DefaultHost)),
              port |-> Or(Get(safeOpts, "port"), Num(DefaultPort))])
    ELSE Obj([socketPath |-> Str(unixSockName)])

\* logIn(options)
logIn(self, options) ==
    LET safeOpts == Or(options, Obj(EmptyObj)).o
        err == loginOptionsError(safeOpts)
        username == Or(Get(safeOpts, "username"), Str(DefaultUsername))
        password == Or(Get(safeOpts, "password"), Str(DefaultPassword))
        data == Concat(Concat(Concat(Str(<<"u","s","e","r","n","a","m","e","=">>), username),
                              Str(<<"&","p","a","s","s","w","o","r","d","=">>)), password)
        target == loginConnectionOptions(safeOpts)
        byHost == "host" \in DOMAIN target.o
        base == [path |-> Or(Get(safeOpts, "path"), Str(LoginPath)),
                 contentLength |-> Num(Len(data.s)),
                 contentType |-> FormContentType]
        localOptions ==
            IF byHost
            THEN [host |-> target.o["host"], port |-> target.o["port"],
                  callback |-> Fn("loginCallback")] @@ base
            ELSE [socketPath |-> target.o["socketPath"]] @@ base
        self2 == [self EXCEPT !.connectionOptions = target]
        req == getPostReq(localOptions, target)
    IN IF err # Undef
       THEN Effect(self, <<Event("error", <<err>>)>>, <<>>, 0, NoError)
       ELSE IF ~byHost
       THEN Effect(self2, <<>>, <<>>, 1, NoError)
       ELSE IF ~req.ok THEN Effect(self2, <<>>, <<>>, 0, req.error)
       ELSE Effect(self2, <<>>, <<[req.value EXCEPT !.body = data.s]>>, 0, NoError)

\* A slip in the callback: login is emitted and loggedIn is left
loginTick_NoFlag(self) ==
    Effect(self, <<Event("login", <<>>)>>, <<>>, 0, NoError)

\* logIn: the callback given to process.nextTick
loginTick(self) ==
    Effect([self EXCEPT !.loggedIn = TRUE], <<Event("login", <<>>)>>, <<>>, 0, NoError)

\* logIn: checkBody, run at the 'end' of the login response
checkBody(self, loginResponse, body) ==
    IF IndexOf(body, <<"l","o","g","i","n">>) # -1
    THEN Effect(self, <<Event("loginFailure", <<loginResponse, Str(body)>>)>>, <<>>, 0, NoError)
    ELSE LET hdr == Get(loginResponse.headers, "set-cookie")
             setCookieHdr == IF hdr.t = "array"
                             THEN (IF Len(hdr.a) > 0 THEN hdr.a[1] ELSE Undef)
                             ELSE hdr
         IN IF setCookieHdr.t # "string"
            THEN Effect(self, <<>>, <<>>, 0, TypeError)
            ELSE Effect([self EXCEPT !.sid = Str(SplitFirst(setCookieHdr.s, <<";", " ">>)),
                                     !.loggedIn = TRUE],
                        <<Event("login", <<>>)>>, <<>>, 0, NoError)

\* A slip in the callback: it acts only on a client that is logged in
logoutCallback_IfLoggedIn(self, logoutResponse) ==
    IF self.loggedIn
    THEN Effect([self EXCEPT !.loggedIn = FALSE], <<Event("logout", <<>>)>>, <<>>, 0, NoError)
    ELSE Effect(self, <<>>, <<>>, 0, NoError)

\* logOut: the response callback
logoutCallback(self, logoutResponse) ==
    Effect([self EXCEPT !.loggedIn = FALSE], <<Event("logout", <<>>)>>, <<>>, 0, NoError)

\* logOut(options)
logOut(self, options) ==
    LET safeOpts == Or(options, Obj(EmptyObj)).o
        localOptions == [path |-> Or(Get(safeOpts, "path"), Str(LogoutPath)),
                         cookie |-> self.sid,
                         callback |-> Fn("logoutCallback")]
        req == getGetReq(localOptions, self.connectionOptions)
    IN IF ~req.ok THEN Effect(self, <<>>, <<>>, 0, req.error)
       ELSE Effect(self, <<>>, <<req.value>>, 0, NoError)

\* getJSON and deleteJSON, which differ in the builder only
pathRequest(self, args, deleting) ==
    LET parsed == parseOptions(args, <<"path">>, <<"callback">>)
        options == parsed.value.o
        localOptions == [path |-> Concat(Str(apiPrefix), Get(options, "path")),
                         cookie |-> self.sid,
                         callback |-> Or(Get(options, "callback"), printResponse)]
        req == IF deleting THEN getDeleteReq(localOptions, self.connectionOptions)
               ELSE getGetReq(localOptions, self.connectionOptions)
    IN IF ~parsed.ok THEN Effect(self, <<>>, <<>>, 0, parsed.error)
       ELSE IF ~req.ok THEN Effect(self, <<>>, <<>>, 0, req.error)
       ELSE Effect(self, <<>>, <<req.value>>, 0, NoError)

\* getJSON(optionsOrPathArg, callbackArg)
getJSON(self, args) == pathRequest(self, args, FALSE)

\* deleteJSON(optionsOrPathArg, callbackArg)
deleteJSON(self, args) == pathRequest(self, args, TRUE)

\* putJSON and postJSON, which differ in the builder only
bodyRequest(self, args, posting) ==
    LET parsed == parseOptions(args, <<"path", "body">>, <<"callback">>)
        options == parsed.value.o
        jsonString == toJsonString(Get(options, "body"))
        localOptions == [path |-> Concat(Str(apiPrefix), Get(options, "path")),
                         contentLength |-> Num(Len(jsonString.s)),
                         contentType |-> JsonContentType,
                         cookie |-> self.sid,
                         callback |-> Or(Get(options, "callback"), printResponse)]
        req == IF posting THEN getPostReq(localOptions, self.connectionOptions)
               ELSE getPutReq(localOptions, self.connectionOptions)
    IN IF ~parsed.ok THEN Effect(self, <<>>, <<>>, 0, parsed.error)
       ELSE IF jsonString.t # "string" THEN Effect(self, <<>>, <<>>, 0, TypeError)
       ELSE IF ~req.ok THEN Effect(self, <<>>, <<>>, 0, req.error)
       ELSE Effect(self, <<>>, <<[req.value EXCEPT !.body = jsonString.s]>>, 0, NoError)

\* putJSON(optionsOrPathArg, callbackArg)
putJSON(self, args) == bodyRequest(self, args, FALSE)

\* postJSON(optionsOrPathArg, callbackArg)
postJSON(self, args) == bodyRequest(self, args, TRUE)

\* A slip in the proxy: the error is forwarded whoever listens
errorProxy_Always(self, listeners, error) ==
    Effect(self, <<Event("error", <<error>>)>>, <<>>, 0, NoError)

\* installErrorProxy: the 'error' listener put on a request; listeners is
\* req.listeners('error').length when the error comes
errorProxy(self, listeners, error) ==
    IF listeners > 1 THEN Effect(self, <<>>, <<>>, 0, NoError)
    ELSE Effect(self, <<Event("error", <<error>>)>>, <<>>, 0, NoError)

-----------------------------------------------------------------------------
(* What the caller and the server may do *)

Absent == Undef

\* An object literal of the given properties, those left out dropped
Literal(props) == Obj([k \in {x \in DOMAIN props : props[x] # Absent} |-> props[k]])

\* The options a caller gives logIn
LoginOptions ==
    {Undef, Obj([host |-> Str(<<"h">>), path |-> Str(<<"/", "l">>)])} \cup
    {Literal([username |-> u, password |-> p, host |-> t.host, port |-> t.port]) :
        u \in {Absent, Str(<<>>), Str(<<"u">>)},
        p \in {Absent, Str(<<"p">>)},
        t \in {[host |-> Absent, port |-> Absent],
               [host |-> Str(<<"h">>), port |-> Absent],
               [host |-> Absent, port |-> Num(80)]}}

\* The options a caller gives logOut
LogoutOptions == {Undef, Obj([path |-> Str(<<"/", "o">>)])}

\* The arguments a caller gives getJSON and deleteJSON
PathArgs ==
    { <<>>,
      <<Str(<<"/", "f">>)>>,
      <<Str(<<"/", "f">>), Fn("userCallback")>>,
      <<Obj([path |-> Str(<<"/", "f">>)])>>,
      <<Obj(EmptyObj)>> }

\* The arguments a caller gives putJSON and postJSON
BodyArgs ==
    { <<Str(<<"/", "f">>)>>,
      <<Str(<<"/", "f">>), Obj([a |-> Num(1)])>>,
      <<Str(<<"/", "f">>), Str(<<>>)>>,
      <<Str(<<"/", "f">>), Undef>>,
      <<Obj([path |-> Str(<<"/", "f">>), body |-> Num(0)])>>,
      <<Obj([path |-> Str(<<"/", "f">>), body |-> Str(<<"x">>)]), Fn("userCallback")>> }

Arguments(args) == [t |-> "arguments", a |-> args]
Arr(a) == [t |-> "array", a |-> a]
Response(statusCode, headers) ==
    [t |-> "response", statusCode |-> statusCode, headers |-> headers]
TransportErrors == {[t |-> "error", code |-> c] : c \in {"ECONNREFUSED", "ECONNRESET"}}

\* The responses a server gives a login request: the message and its body chunks
LoginResponses ==
    { [res |-> Response(200, ("set-cookie" :> Str(<<"s","=","1",";"," ","P">>))),
       chunks |-> << <<"l","o","g"," ","i","n">> >>],
      [res |-> Response(200, ("set-cookie" :> Arr(<<Str(<<"s","=","1",";"," ","P">>),
                                                   Str(<<"s","=","2">>)>>))),
       chunks |-> <<>>],
      [res |-> Response(200, EmptyObj),
       chunks |-> << <<"o","k">> >>],
      [res |-> Response(200, ("set-cookie" :> Str(<<"s","=","1",";"," ","P">>))),
       chunks |-> << <<"<","l","o">>, <<"g","i","n",">">> >>],
      [res |-> Response(401, EmptyObj),
       chunks |-> << <<"l","o","g","i","n">> >>],
      [res |-> Response(200, ("set-cookie" :> Str(<<";"," ","P">>))),
       chunks |-> << <<"o","k">> >>] }

\* The responses a server gives a logout or JSON request
OtherResponses == {Response(200, EmptyObj), Response(500, EmptyObj)}

-----------------------------------------------------------------------------
(* The state machine *)

NoCall == [op |-> "new Client", arg |-> Undef, idx |-> 0]
NotParsed == [ok |-> FALSE, value |-> Undef, error |-> [type |-> "not called", msg |-> "", arg |-> <<>>]]

\* The connection target among the options given to http.request
Target(requestOptions) ==
    Obj([k \in DOMAIN requestOptions \cap {"host", "port", "socketPath"} |-> requestOptions[k]])

\* A request in the hands of the transport.  listeners is the number of 'error'
\* listeners on it: the one the client put there and those of the caller.
Flight(kind, req) ==
    [kind |-> kind,
     listeners |-> 1, phase |-> "sent", response |-> Undef, body |-> <<>>, rest |-> <<>>]

RemoveAt(seq, i) == SubSeq(seq, 1, i - 1) \o SubSeq(seq, i + 1, Len(seq))

\* The history kept when recording: how many logOut calls were answered, or,
\* for the session, whose cookie sid is and what became of the logIn or logOut
\* issued last
History ==
    LET op == lastCall'.op
        i == lastCall'.idx
        names == {emitted'[k].name : k \in DOMAIN emitted'}
        settles == op \in {"loginEnd", "loginError", "logoutResponse", "logoutError",
                           "jsonResponse", "jsonError"}
        outcome == IF "login" \in names THEN "in"
                   ELSE IF "logout" \in names THEN "out"
                   ELSE "failed"
    IN /\ UNCHANGED recording
       /\ logoutsDone' = IF recording = "logouts" /\ op = "logoutResponse"
                         THEN logoutsDone + 1 ELSE logoutsDone
       /\ IF recording # "session"
          THEN UNCHANGED <<sidTarget, targets, latestPos, latestOutcome>>
          ELSE
          /\ sidTarget' = IF op = "loginEnd" /\ "login" \in names
                          THEN targets[i] ELSE sidTarget
          /\ targets' = IF settles THEN RemoveAt(targets, i)
                        ELSE targets \o [k \in DOMAIN issued' |-> Target(issued'[k].options)]
          /\ IF op \in {"logIn", "logOut"} /\ issued' # <<>>
             THEN latestPos' = Len(inflight') /\ latestOutcome' = "pending"
             ELSE IF op = "logIn" /\ tickQueue' > tickQueue
             THEN latestPos' = -1 /\ latestOutcome' = "pending"
             ELSE IF op = "nextTick" /\ latestPos = -1 /\ tickQueue' = 0
             THEN latestPos' = 0 /\ latestOutcome' = "in"
             ELSE IF settles /\ latestPos = i
             THEN latestPos' = 0 /\ latestOutcome' = outcome
             ELSE IF settles /\ latestPos > i
             THEN latestPos' = latestPos - 1 /\ UNCHANGED latestOutcome
             ELSE UNCHANGED <<latestPos, latestOutcome>>

\* One piece of client code runs: its effect on the client's fields and what the
\* step shows
Run(e, op, arg, idx) ==
    /\ loggedIn' = e.self.loggedIn
    /\ sid' = e.self.sid
    /\ connectionOptions' = e.self.connectionOptions
    /\ tickQueue' = tickQueue + e.ticks
    /\ emitted' = e.events
    /\ issued' = e.requests
    /\ thrown' = e.error
    /\ lastCall' = [op |-> op, arg |-> arg, idx |-> idx]

\* A client operation is called: the requests it sent are in flight
Called(e, op, arg, kind) ==
    /\ Len(inflight) + Len(e.requests) <= MaxInFlight
    /\ calls' = calls + 1
    /\ inflight' = inflight \o [k \in DOMAIN e.requests |-> Flight(kind, e.requests[k])]
    /\ Run(e, op, arg, 0)
    /\ History
    /\ UNCHANGED parseVars

\* A callback of request i runs and the request is settled
Settled(e, op, arg, i) ==
    /\ inflight' = RemoveAt(inflight, i)
    /\ UNCHANGED calls
    /\ Run(e, op, arg, i)
    /\ History
    /\ UNCHANGED parseVars

Nothing == Effect(Self, <<>>, <<>>, 0, NoError)

CallLogIn ==
    /\ calls < MaxCalls
    /\ \E options \in LoginOptions : Called(logIn(Self, options), "logIn", options, "login")

CallLogOut ==
    /\ calls < MaxCalls
    /\ \E options \in LogoutOptions : Called(logOut(Self, options), "logOut", options, "logout")

CallGetJSON ==
    /\ calls < MaxCalls
    /\ \E args \in PathArgs : Called(getJSON(Self, args), "getJSON", Arguments(args), "json")

CallDeleteJSON ==
    /\ calls < MaxCalls
    /\ \E args \in PathArgs :
          Called(deleteJSON(Self, args), "deleteJSON", Arguments(args), "json")

CallPutJSON ==
    /\ calls < MaxCalls
    /\ \E args \in BodyArgs : Called(putJSON(Self, args), "putJSON", Arguments(args), "json")

CallPostJSON ==
    /\ calls < MaxCalls
    /\ \E args \in BodyArgs : Called(postJSON(Self, args), "postJSON", Arguments(args), "json")

\* process.nextTick runs the oldest callback logIn queued
NextTick ==
    /\ tickQueue > 0
    /\ Run([loginTick(Self) EXCEPT !.ticks = -1], "nextTick", Undef, 0)
    /\ UNCHANGED <<inflight, calls>>
    /\ History
    /\ UNCHANGED parseVars

\* The transport calls back only when no nextTick callback is pending
Waiting(i, kind, phase) ==
    /\ tickQueue = 0
    /\ i \in DOMAIN inflight
    /\ inflight[i].kind = kind
    /\ inflight[i].phase = phase

\* The login response comes: the callback sets body = "" and listens for data and end
LoginResponse(i) ==
    /\ Waiting(i, "login", "sent")
    /\ \E r \in LoginResponses :
          /\ inflight' = [inflight EXCEPT ![i].phase = "responding",
                                          ![i].response = r.res,
                                          ![i].rest = r.chunks]
          /\ Run(Nothing, "loginResponse", r.res, i)
    /\ UNCHANGED calls
    /\ History
    /\ UNCHANGED parseVars

\* 'data': body += chunk
LoginData(i) ==
    /\ Waiting(i, "login", "responding")
    /\ inflight[i].rest # <<>>
    /\ inflight' = [inflight EXCEPT ![i].body = @ \o Head(inflight[i].rest),
                                    ![i].rest = Tail(@)]
    /\ Run(Nothing, "loginData", inflight[i].response, i)
    /\ UNCHANGED calls
    /\ History
    /\ UNCHANGED parseVars

\* 'end': checkBody
LoginEnd(i) ==
    /\ Waiting(i, "login", "responding")
    /\ inflight[i].rest = <<>>
    /\ Settled(checkBody(Self, inflight[i].response, inflight[i].body),
               "loginEnd", inflight[i].response, i)

\* 'error' on the login request
LoginError(i) ==
    /\ Waiting(i, "login", "sent")
    /\ \E error \in TransportErrors :
          Settled(Effect(Self, <<Event("loginRequestFailure", <<error>>)>>, <<>>, 0, NoError),
                  "loginError", error, i)

\* The logout response comes
LogOutResponse(i) ==
    /\ Waiting(i, "logout", "sent")
    /\ \E res \in OtherResponses :
          Settled(logoutCallback(Self, res), "logoutResponse", res, i)

\* 'error' on the logout request
LogOutError(i) ==
    /\ Waiting(i, "logout", "sent")
    /\ \E error \in TransportErrors :
          Settled(Effect(Self, <<Event("logoutRequestFailure", <<error>>)>>, <<>>, 0, NoError),
                  "logoutError", error, i)

\* The response of a JSON request comes: the caller's callback or printResponse
\* reads it, and neither touches the client
JsonResponse(i) ==
    /\ Waiting(i, "json", "sent")
    /\ \E res \in OtherResponses : Settled(Nothing, "jsonResponse", res, i)

\* 'error' on a JSON request: the error proxy runs
JsonError(i) ==
    /\ Waiting(i, "json", "sent")
    /\ \E error \in TransportErrors :
          Settled(errorProxy(Self, inflight[i].listeners, error), "jsonError", error, i)

\* The caller puts an 'error' listener of their own on a request a JSON call returned
AddErrorListener(i) ==
    /\ i \in DOMAIN inflight
    /\ inflight[i].kind = "json"
    /\ inflight[i].listeners < 1 + MaxUserListeners
    /\ inflight' = [inflight EXCEPT ![i].listeners = @ + 1]
    /\ Run(Nothing, "req.on", Undef, i)
    /\ UNCHANGED calls
    /\ History
    /\ UNCHANGED parseVars

\* The caller takes a listener of their own off again
RemoveErrorListener(i) ==
    /\ i \in DOMAIN inflight
    /\ inflight[i].kind = "json"
    /\ inflight[i].listeners > 1
    /\ inflight' = [inflight EXCEPT ![i].listeners = @ - 1]
    /\ Run(Nothing, "req.removeListener", Undef, i)
    /\ UNCHANGED calls
    /\ History
    /\ UNCHANGED parseVars

\* new Client()
NewClient ==
    /\ loggedIn = FALSE
    /\ sid = Undef
    /\ connectionOptions = Undef
    /\ inflight = <<>>
    /\ tickQueue = 0
    /\ calls = 0
    /\ lastCall = NoCall
    /\ emitted = <<>>
    /\ issued = <<>>
    /\ thrown = NoError
    /\ sidTarget = Undef
    /\ latestOutcome = "none"
    /\ latestPos = 0
    /\ logoutsDone = 0
    /\ targets = <<>>

NoParse ==
    /\ pArgs = <<>>
    /\ pRequired = <<>>
    /\ pOptional = <<>>
    /\ pResult = NotParsed

Init == NewClient /\ recording = "nothing" /\ NoParse

InitLogouts == NewClient /\ recording = "logouts" /\ NoParse

InitHistory == NewClient /\ recording = "session" /\ NoParse

Next ==
    \/ CallLogIn
    \/ CallLogOut
    \/ CallGetJSON
    \/ CallDeleteJSON
    \/ CallPutJSON
    \/ CallPostJSON
    \/ NextTick
    \/ \E i \in 1..MaxInFlight :
          \/ LoginResponse(i)
          \/ LoginData(i)
          \/ LoginEnd(i)
          \/ LoginError(i)
          \/ LogOutResponse(i)
          \/ LogOutError(i)
          \/ JsonResponse(i)
          \/ JsonError(i)
          \/ AddErrorListener(i)
          \/ RemoveErrorListener(i)

Spec == Init /\ [][Next]_vars

\* The same client with its answered logOut calls counted
SpecLogouts == InitLogouts /\ [][Next]_vars

\* The same client with the history of its session recorded
SpecHistory == InitHistory /\ [][Next]_vars

-----------------------------------------------------------------------------
(* parseOptions on its own *)

\* arguments of one parseOptions call
MaxArgs == 3

ArgValues ==
    { Undef, Str(<<>>), Str(<<"/", "f">>), Num(0), Num(7), Fn("userCallback"),
      Obj(EmptyObj),
      Obj([path |-> Str(<<"/", "f">>)]),
      Obj([path |-> Str(<<>>), body |-> Num(1)]),
      Obj([path |-> Str(<<"/", "f">>), body |-> Num(0)]),
      Obj([path |-> Str(<<"/", "f">>), body |-> Obj([a |-> Num(1)]), callback |-> Fn("own")]),
      Obj([body |-> Str(<<"x">>), extra |-> Num(7)]) }

ArgLists == UNION {[1..n -> ArgValues] : n \in 0..MaxArgs}

InitParse ==
    /\ NewClient
    /\ recording = "nothing"
    /\ pArgs \in ArgLists
    /\ pRequired \in {<<>>, <<"path">>, <<"path", "body">>}
    /\ pOptional \in {<<>>, <<"callback">>}
    /\ pResult = NotParsed

ParseCall ==
    /\ pResult = NotParsed
    /\ pResult' = parseOptions(pArgs, pRequired, pOptional)
    /\ UNCHANGED <<pArgs, pRequired, pOptional, clientVars, historyVars>>

NextParse == ParseCall

SpecParse == InitParse /\ [][NextParse]_vars

-----------------------------------------------------------------------------
(* The option normalizer: parseOptions *)

\* v has no property k
Lacks(v, k) == v.t # "object" \/ k \notin DOMAIN v.o

\* The required fields the first argument lacks, by position
AbsentFields(args, required) == {i \in 1..Len(required) : Lacks(args[1], required[i])}

\* The three cases in which parseOptions is said to fail
SaidToFail(args, required) ==
    \/ Len(args) = 0 /\ Len(required) > 0
    \/ Len(args) > 0 /\ isString(args[1]) /\ Len(args) < Len(required)
    \/ Len(args) > 0 /\ ~isString(args[1]) /\ AbsentFields(args, required) # {}

\* The record parseOptions is said to return
SaidToReturn(args, required, optional) ==
    IF Len(args) = 0 THEN EmptyObj
    ELSE LET first == IF isString(args[1]) THEN Len(required) ELSE 1
             filled == Min(Len(args) - first, Len(optional))
             named == {optional[j] : j \in 1..filled}
             taken == IF isString(args[1]) THEN {required[i] : i \in 1..Len(required)}
                      ELSE ForInKeys(args[1])
         IN [k \in taken \cup named |->
                IF k \in named THEN args[first + (CHOOSE j \in 1..filled : optional[j] = k)]
                ELSE IF isString(args[1]) THEN args[CHOOSE i \in 1..Len(required) : required[i] = k]
                ELSE args[1].o[k]]

\* C8: parseOptions fails exactly when there are no arguments but required fields,
\* or the first argument is a string and the arguments are fewer than the required
\* fields, or the first argument is not a string and lacks a required field (the
\* error then names the first absent field); in every other case it returns the
\* record filled by position, or copied from the first argument and completed by
\* the optional fields.
C8_ParseOptionsContract ==
    pResult # NotParsed =>
        /\ pResult.ok = ~SaidToFail(pArgs, pRequired)
        /\ (~pResult.ok /\ Len(pArgs) > 0 /\ ~isString(pArgs[1]))
              => pResult.error = missingArgError(pRequired[Least(AbsentFields(pArgs, pRequired))])
        /\ pResult.ok => pResult.value = Obj(SaidToReturn(pArgs, pRequired, pOptional))

-----------------------------------------------------------------------------
(* The client: what the claims speak of *)

JsonOps == {"getJSON", "putJSON", "postJSON", "deleteJSON"}

\* The options object a logIn call was given ({} when none)
Opts(arg) == IF arg.t = "object" THEN arg.o ELSE EmptyObj
Given(arg, k) == k \in DOMAIN Opts(arg)
HasValue(arg, k) == Truthy(Get(Opts(arg), k))

\* The callbacks the HTTP transport runs
TransportCallbacks ==
    {"loginResponse", "loginData", "loginEnd", "loginError",
     "logoutResponse", "logoutError", "jsonResponse", "jsonError"}

LoginEvent == Event("login", <<>>)
LogoutEvent == Event("logout", <<>>)
SocketTarget == Obj([socketPath |-> Str(unixSockName)])

\* C1: when the body of a host/port login response has been read to its end: if
\* it contains "login", loginFailure is emitted with the response and that body
\* and sid and loggedIn stay; otherwise, whatever the headers, sid becomes the
\* part of the (first) Set-Cookie value before the first "; ", loggedIn becomes
\* true and login is emitted.
C1_LoginResponseOutcome ==
    [][lastCall'.op = "loginEnd" =>
          LET fl == inflight[lastCall'.idx]
              hdr == Get(fl.response.headers, "set-cookie")
              first == IF hdr.t = "array" THEN hdr.a[1] ELSE hdr
          IN IF IndexOf(fl.body, <<"l","o","g","i","n">>) # -1
             THEN /\ emitted' = <<Event("loginFailure", <<fl.response, Str(fl.body)>>)>>
                  /\ UNCHANGED <<sid, loggedIn>>
             ELSE /\ first.t = "string"
                  /\ sid' = Str(SplitFirst(first.s, <<";", " ">>))
                  /\ loggedIn' = TRUE
                  /\ emitted' = <<LoginEvent>>]_vars

\* A logIn call that is turned down: one error event with a message, no request,
\* no nextTick callback, the client's fields as they were
TurnedDown ==
    /\ Len(emitted') = 1
    /\ emitted'[1].name = "error"
    /\ Len(emitted'[1].args) = 1
    /\ Truthy(Prop(emitted'[1].args[1], "message"))
    /\ issued' = <<>>
    /\ inflight' = inflight
    /\ tickQueue' = tickQueue
    /\ UNCHANGED <<loggedIn, sid, connectionOptions>>

BothOrNeither(arg) == HasValue(arg, "username") = HasValue(arg, "password")

\* C3: a logIn call with neither host nor port (username and password both or
\* neither) sets connectionOptions to the socket path /tmp/rest_server/http.sock,
\* sends no request and neither sets loggedIn nor emits login before it returns;
\* its nextTick callback, which runs before any callback of the transport, sets
\* loggedIn and emits login once.
C3_SocketLogin ==
    [][/\ (lastCall'.op = "logIn" /\ BothOrNeither(lastCall'.arg)
             /\ ~Given(lastCall'.arg, "host") /\ ~Given(lastCall'.arg, "port"))
          => /\ connectionOptions' = SocketTarget
             /\ issued' = <<>> /\ inflight' = inflight
             /\ loggedIn' = loggedIn /\ emitted' = <<>>
             /\ thrown' = NoError
             /\ tickQueue' = tickQueue + 1
       /\ tickQueue > 0 => lastCall'.op \notin TransportCallbacks
       /\ lastCall'.op = "nextTick"
          => /\ loggedIn' = TRUE
             /\ emitted' = <<LoginEvent>>
             /\ issued' = <<>>
             /\ tickQueue' = tickQueue - 1]_vars

\* C3 happens: the only call was a socket logIn, its callback has just run
C3_Witness ==
    /\ lastCall.op = "nextTick"
    /\ calls = 1 /\ tickQueue = 0 /\ inflight = <<>>
    /\ connectionOptions = SocketTarget
    /\ loggedIn /\ emitted = <<LoginEvent>>

\* getJSON(path): a path string, with or without a callback
PathCall(arg) == Len(arg.a) >= 1 /\ isString(arg.a[1])

\* The path the caller gave a JSON call
GivenPath(arg) == IF isString(arg.a[1]) THEN arg.a[1] ELSE Prop(arg.a[1], "path")

Prefixed(req, arg) ==
    req.options["path"] = Str(apiPrefix \o ToStr(GivenPath(arg)))

\* A Cookie header equal to sid when sid is set, none when it is not
CookieWhenSet(req) ==
    IF sid # Undef
    THEN "Cookie" \in DOMAIN req.headers /\ req.headers["Cookie"] = sid
    ELSE "Cookie" \notin DOMAIN req.headers

\* A Cookie header equal to sid when sid is a non-empty string, none otherwise
CookieWhenTruthy(req) ==
    IF Truthy(sid)
    THEN "Cookie" \in DOMAIN req.headers /\ req.headers["Cookie"] = sid
    ELSE "Cookie" \notin DOMAIN req.headers

MethodOf(op) ==
    CASE op = "getJSON" -> "GET" [] op = "putJSON" -> "PUT"
      [] op = "postJSON" -> "POST" [] op = "deleteJSON" -> "DELETE"

\* C4 as stated: in every client state, a freshly constructed client included,
\* getJSON(path) sends exactly one GET request for "/lrs/api/v1.0" + path, with
\* a Cookie header equal to sid when sid is set and none when it is not; the
\* requests of putJSON, postJSON and deleteJSON follow the same two rules.
C4_EveryState ==
    /\ (lastCall.op = "getJSON" /\ PathCall(lastCall.arg)) => Len(issued) = 1
    /\ lastCall.op \in JsonOps =>
          \A k \in DOMAIN issued :
              /\ issued[k].method = MethodOf(lastCall.op)
              /\ Prefixed(issued[k], lastCall.arg)
              /\ CookieWhenSet(issued[k])

\* C4 as amended: once a logIn has set connectionOptions, getJSON(path) sends
\* exactly one GET request for "/lrs/api/v1.0" + path, with a Cookie header equal
\* to sid when sid is a non-empty string and none otherwise; the requests of
\* putJSON, postJSON and deleteJSON follow the same two rules.
C4_AfterLogIn ==
    /\ (lastCall.op = "getJSON" /\ PathCall(lastCall.arg) /\ connectionOptions # Undef)
          => Len(issued) = 1
    /\ lastCall.op \in JsonOps =>
          \A k \in DOMAIN issued :
              /\ issued[k].method = MethodOf(lastCall.op)
              /\ Prefixed(issued[k], lastCall.arg)
              /\ CookieWhenTruthy(issued[k])

\* C4 happens: after logIn and logOut, getJSON(path) sent the stored cookie
C4_Witness ==
    /\ lastCall.op = "getJSON" /\ PathCall(lastCall.arg)
    /\ ~loggedIn /\ Truthy(sid)
    /\ Len(issued) = 1 /\ issued[1].headers["Cookie"] = sid


\* C5: every logOut call that gets a response, whatever its status and whatever
\* loggedIn was, sets loggedIn to false and emits logout once; a logOut called
\* after a logOut that got its response sends its request without an error and
\* emits logout again on its response.
C5_LogOutAnswered ==
    [][/\ lastCall'.op = "logoutResponse"
          => /\ loggedIn' = FALSE
             /\ emitted' = <<LogoutEvent>>
             /\ thrown' = NoError
       /\ (lastCall'.op = "logOut" /\ logoutsDone > 0)
          => /\ thrown' = NoError
             /\ emitted' = <<>>
             /\ Len(issued') = 1]_vars

\* C5 happens: a second logOut got its response, a 500, on a logged-out client
C5_Witness ==
    /\ lastCall.op = "logoutResponse"
    /\ lastCall.arg.statusCode = 500
    /\ logoutsDone = 2
    /\ emitted = <<LogoutEvent>>
    /\ ~loggedIn

\* C6: every request built while the connection target is host/port carries the
\* Host header "<host>:<port>" of that target.
C6_HostHeader ==
    \A k \in DOMAIN issued :
        LET o == issued[k].options
        IN "host" \in DOMAIN o =>
              issued[k].headers["Host"] = Str(ToStr(o["host"]) \o <<":">> \o ToStr(o["port"]))

\* C7: when a request returned by a JSON call has a transport error: with no
\* error listener of the caller on it the client emits one error event carrying
\* that error, with one or more it emits none; no other event is emitted, no
\* request is sent again, and the client's fields stay.
C7_ErrorProxy ==
    [][lastCall'.op = "jsonError" =>
          LET i == lastCall'.idx
          IN /\ IF inflight[i].listeners = 1
                THEN emitted' = <<Event("error", <<lastCall'.arg>>)>>
                ELSE emitted' = <<>>
             /\ issued' = <<>>
             /\ inflight' = RemoveAt(inflight, i)
             /\ UNCHANGED <<loggedIn, sid, connectionOptions, tickQueue>>]_vars

\* C7 happens: a request with a listener of the caller failed and nothing was emitted
C7_Witness ==
    /\ lastCall.op = "jsonError"
    /\ lastCall.arg \in TransportErrors
    /\ emitted = <<>>

\* C9: connectionOptions changes only in a logIn call that passes the
\* username/password test; such a call assigns it one target, host and port or
\* socketPath and never both; logOut, the JSON calls and every callback leave
\* it, and the JSON calls and their callbacks leave sid and loggedIn too.
C9_ConnectionOptionsFrame ==
    [][/\ connectionOptions' # connectionOptions
          => lastCall'.op = "logIn" /\ BothOrNeither(lastCall'.arg)
       /\ (lastCall'.op = "logIn" /\ BothOrNeither(lastCall'.arg))
          => /\ connectionOptions'.t = "object"
             /\ DOMAIN connectionOptions'.o \in {{"host", "port"}, {"socketPath"}}
       /\ lastCall'.op \in JsonOps \cup {"jsonResponse", "jsonError", "req.on",
                                        "req.removeListener"}
          => UNCHANGED <<sid, loggedIn>>]_vars

\* C9 happens: a logIn moved a client that holds a session cookie to the socket
C9_Witness ==
    /\ lastCall.op = "logIn"
    /\ connectionOptions = SocketTarget
    /\ Truthy(sid)

\* A logIn or logOut request is in flight, or a logIn callback is pending
SessionPending ==
    \/ tickQueue > 0
    \/ \E i \in DOMAIN inflight : inflight[i].kind \in {"login", "logout"}

\* C10: however logIn and logOut calls and their responses interleave, whenever
\* loggedIn is true and sid is set, sid is the cookie of the login to the target
\* in connectionOptions; and once all responses have arrived loggedIn is what the
\* logIn or logOut issued last made of it.
C10_SessionConsistent ==
    /\ (loggedIn /\ sid # Undef) => sidTarget = connectionOptions
    /\ ~SessionPending =>
          /\ latestOutcome = "in" => loggedIn
          /\ latestOutcome = "out" => ~loggedIn

====
